---- MODULE Spec2Model ----
(***************************************************************************)
(* Model of the playlist assembly engine of neoplaylist: the /query        *)
(* controller (playlist/controllers.py), the three-phase hybrid cycle and  *)
(* its helpers (playlist/services.py, playlist/postprocessing_utils.py,    *)
(* playlist/popularity_utils.py, playlist/intent_analysis.py,              *)
(* playlist/utils.py, playlist/finalize.py), and of its session handlers   *)
(* (auth/controllers.py, auth/utils.py, auth_beta2.py).                    *)
(*                                                                         *)
(* Conventions.                                                            *)
(*  - Text is modelled at token granularity: a title or a query is a       *)
(*    sequence of word tokens, a regex/substring match is a token match.   *)
(*  - A Python dict of filters is a function over FilterKeys whose absent  *)
(*    keys hold NoVal.                                                     *)
(*  - Floating point scores are integers scaled by 10^4 (logarithms by     *)
(*    10^3); round() is truncation at that scale.                          *)
(*  - Ruta = 0 stands for a missing file reference (None).                 *)
(***************************************************************************)
EXTENDS Integers, Sequences, FiniteSets, TLC

(***************************************************************************)
(* Bounds of the model                                                     *)
(***************************************************************************)
\* default_limit of hybrid_playlist_cycle_enhanced is drawn from 1..MaxTarget
MaxTarget == 6
\* number of steps of one request during which the catalog store is down
MaxDbFail == 1

(***************************************************************************)
(* Program constants                                                       *)
(***************************************************************************)
MinDirectLimit == 5
MaxDirectLimit == 100
DefaultDetectedLimit == 30
MinModelLimit == 10
PerSuggestionLimit == 5
MaxPerArtist == 3
MaxPerAlbum == 2
ComplexityCapHigh == 20
ComplexityCapMid == 25

(***************************************************************************)
(* Small helpers on sequences and numbers                                  *)
(***************************************************************************)
Min(a, b) == IF a <= b THEN a ELSE b
Max(a, b) == IF a >= b THEN a ELSE b
Range(s) == {s[i] : i \in 1..Len(s)}

\* variant: a slice that keeps the whole list
TakeAll(s, n) == s

\* Python slice s[:n] for n >= 0
Take(s, n) == SubSeq(s, 1, Min(n, Len(s)))

RECURSIVE ISqrtBS(_, _, _)
ISqrtBS(n, lo, hi) ==
    IF lo >= hi THEN lo
    ELSE LET mid == (lo + hi + 1) \div 2
         IN IF mid * mid <= n THEN ISqrtBS(n, mid, hi) ELSE ISqrtBS(n, lo, mid - 1)

\* floor(sqrt(n)) for 0 <= n
ISqrt(n) == ISqrtBS(n, 0, Max(1, Min(n, 40000)))

(***************************************************************************)
(* Text: lower-casing and the title canonicalisation                       *)
(***************************************************************************)
\* str.lower() on the tokens the model uses
Lower(tok) ==
    CASE tok = "Song" -> "song"
      [] tok = "Rock" -> "rock"
      [] tok = "Live" -> "live"
      [] tok = "Zzzz" -> "zzzz"
      [] OTHER -> tok

LowerSeq(s) == [i \in 1..Len(s) |-> Lower(s[i])]

\* tokens wholly enclosed in ( ) or [ ]
BracketTokens == {"(remastered)", "(live)", "[2009]"}
\* services.py:82-89, the words the version patterns delete
VersionWords == {"remastered", "remaster", "remix", "live", "version", "edit",
                 "demo", "acoustic", "mono", "stereo", "deluxe", "alternate"}
\* services.py:84, a featuring clause runs to the end of the title; "feat."
\* and "ft." before a blank have no word boundary after the dot and stay
FeatWords == {"featuring", "with"}
PunctTokens == {"-", "!", "?"}
\* the blank a deleted word leaves between its neighbours
Gap == ""
\* services.py:83, the words deleted after a year that the first pattern leaves
YearTokens == {"1999", "1985"}
YearVersionWords == {"mix", "master"}
\* services.py:89, the numbers of a take
TakeNumbers == {"2", "3"}

\* services.py:95, every character that is neither a letter, a digit nor a
\* blank becomes a blank: the words of a token
SplitPunct(tok) ==
    CASE tok \in PunctTokens -> <<>>
      [] tok = "bonus-track" -> <<"bonus", "track">>
      [] tok = "take-2" -> <<"take", "2">>
      [] tok = "feat." -> <<"feat">>
      [] tok = "ft." -> <<"ft">>
      [] OTHER -> <<tok>>

RECURSIVE SplitAll(_)
SplitAll(s) == IF s = <<>> THEN <<>> ELSE SplitPunct(Head(s)) \o SplitAll(Tail(s))

\* re.sub of a two-word pattern: a word of A followed, one blank apart, by a
\* word of B is deleted with it (A and B are disjoint, so no two matches overlap)
DeletePairs(s, A, B) ==
    [i \in 1..Len(s) |->
        IF \/ i < Len(s) /\ s[i] \in A /\ s[i + 1] \in B
           \/ i > 1 /\ s[i - 1] \in A /\ s[i] \in B
        THEN Gap ELSE s[i]]

\* services.py:82, the words of the one-word patterns leave a blank
DeleteVersionWords(s) == [i \in 1..Len(s) |-> IF s[i] \in VersionWords THEN Gap ELSE s[i]]

\* index of the first token of s that is in S, or Len(s)+1
RECURSIVE FirstIn(_, _, _)
FirstIn(s, S, i) ==
    IF i > Len(s) THEN Len(s) + 1
    ELSE IF s[i] \in S THEN i ELSE FirstIn(s, S, i + 1)

\* services.py:84, a featuring clause is deleted to the end of the title
CutFeaturing(s) == SubSeq(s, 1, FirstIn(s, FeatWords, 1) - 1)

normalize_title_for_dedupe(s) ==
    IF s = <<>> THEN <<>>
    ELSE \* each step reads the value the step before it has produced
         CHOOSE result \in
             {SelectSeq(SplitAll(noTake), LAMBDA w : w # Gap) :
                 noTake \in {DeletePairs(noBonus, {"take"}, TakeNumbers) :
                     noBonus \in {DeletePairs(cut, {"bonus"}, {"track"}) :
                         cut \in {CutFeaturing(noYear) :
                             noYear \in {DeletePairs(noVer, YearTokens, YearVersionWords) :
                                 noVer \in {DeleteVersionWords(noBr) :
                                     noBr \in {SelectSeq(LowerSeq(s), LAMBDA w : w \notin BracketTokens)}}}}}}} :
             TRUE

(***************************************************************************)
(* The catalog                                                             *)
(***************************************************************************)
Track(r, ti, ar, al, yr, dec, g, br, pl, li, yt, stored) ==
    [Ruta |-> r, Titulo |-> ti, Artista |-> ar, Album |-> al, Anio |-> yr,
     Decada |-> dec, Genero |-> g, Bitrate |-> br,
     LastFMPlaycount |-> pl, LastFMListeners |-> li, YouTubeViews |-> yt,
     PopularityScore |-> stored, RelativePopularityScore |-> -1,
     src |-> "catalog"]

T1 == Track(1, <<"Song">>, "a1", "x", 1985, "1980s", "rock", 320, 999, 99, 99, 9000)
T2 == Track(2, <<"love">>, "a1", "y", 1986, "1980s", "rock", 320, 99, 9, 9, 5000)
T3 == Track(3, <<"fire">>, "a1", "y", 1992, "1990s", "rock", 256, 9, 9, 9, 3000)
T4 == Track(4, <<"rain">>, "a2", "w", 1993, "1990s", "rock", 320, 999, 999, 99, 9500)
T5 == Track(5, <<"moon">>, "a2", "w", 1994, "1990s", "rock", 320, 99, 99, 99, 7000)
T6 == Track(6, <<"star">>, "a2", "w", 1995, "1990s", "Rock", 320, 9, 9, 0, 2000)
T7 == Track(7, <<"wind", "live">>, "a3", "u", 2001, "2000s", "pop", 192, 99, 9, 0, 4000)
T8 == Track(8, <<"song", "(remastered)">>, "a1", "x", 1985, "1980s", "rock", 128, 99, 99, 9, 1000)

Universe == {T1, T2, T3, T4, T5, T6, T7, T8}

\* the catalogs a request may run against
Catalogs == { {}, {T1, T7, T8}, Universe }

\* natural order of the collection: by file reference
RECURSIVE CatalogSeq(_)
CatalogSeq(cat) ==
    IF cat = {} THEN <<>>
    ELSE LET first == CHOOSE t \in cat : \A u \in cat : t.Ruta <= u.Ruta
         IN <<first>> \o CatalogSeq(cat \ {first})

Rel(t) == IF t.RelativePopularityScore < 0 THEN 0 ELSE t.RelativePopularityScore

\* stable insertion of x into a sequence sorted by descending relative score
InsertByRel(sorted, x) ==
    LET c == Cardinality({i \in 1..Len(sorted) : Rel(sorted[i]) >= Rel(x)})
    IN SubSeq(sorted, 1, c) \o <<x>> \o SubSeq(sorted, c + 1, Len(sorted))

\* sorted(..., key=RelativePopularityScore, reverse=True): stable
RECURSIVE SortByRelDesc(_)
SortByRelDesc(s) ==
    IF s = <<>> THEN <<>>
    ELSE InsertByRel(SortByRelDesc(SubSeq(s, 1, Len(s) - 1)), s[Len(s)])

InsertByStoredPop(sorted, x) ==
    LET c == Cardinality({i \in 1..Len(sorted) :
                             sorted[i].PopularityScore >= x.PopularityScore})
    IN SubSeq(sorted, 1, c) \o <<x>> \o SubSeq(sorted, c + 1, Len(sorted))

\* cursor.sort("PopularityScore", -1) on the stored field
RECURSIVE SortByStoredPopDesc(_)
SortByStoredPopDesc(s) ==
    IF s = <<>> THEN <<>>
    ELSE InsertByStoredPop(SortByStoredPopDesc(SubSeq(s, 1, Len(s) - 1)), s[Len(s)])

(***************************************************************************)
(* Scoring: popularity_utils.py                                            *)
(***************************************************************************)
\* math.log1p scaled by 10^3, on the metric values of the catalog
Log1pMilli(x) ==
    CASE x = 0 -> 0
      [] x = 1 -> 693
      [] x = 9 -> 2303
      [] x = 99 -> 4605
      [] x = 999 -> 6908
      [] OTHER -> 6908

norm_safe(value, max_value) == IF max_value > 0 THEN (value * 1000) \div max_value ELSE 0

MaxOf(S) == CHOOSE m \in S : \A x \in S : x <= m

\* get_global_max_values: the aggregate over the collection; any failure
\* (store down, or an empty collection whose maxima are null) gives 1.0 each
get_global_max_values(cat, up) ==
    IF up /\ cat # {}
    THEN [playcount |-> MaxOf({t.LastFMPlaycount : t \in cat}),
          listeners |-> MaxOf({t.LastFMListeners : t \in cat}),
          youtube   |-> MaxOf({t.YouTubeViews : t \in cat})]
    ELSE [playcount |-> 1, listeners |-> 1, youtube |-> 1]

\* compute_popularity: 0.5*play + 0.3*listeners + 0.2*youtube, scaled by 10^4
compute_popularity(t, gm) ==
    LET play      == norm_safe(Log1pMilli(t.LastFMPlaycount), Log1pMilli(gm.playcount))
        listeners == norm_safe(Log1pMilli(t.LastFMListeners), Log1pMilli(gm.listeners))
        youtube   == norm_safe(Log1pMilli(t.YouTubeViews), Log1pMilli(gm.youtube))
    IN 5 * play + 3 * listeners + 2 * youtube

WithPopularity(tracks, gm) ==
    [i \in 1..Len(tracks) |-> [tracks[i] EXCEPT !.PopularityScore = compute_popularity(tracks[i], gm)]]

\* genre label of compute_relative_popularity_by_genre
GenreLabel(t) == IF t.Genero = "" THEN "Desconocido" ELSE t.Genero

\* sqrt(rel) + 0.2: the curve without its compression to four fifths
RelativeScoreUncompressed(t, tracks) ==
    LET group == {tracks[i].PopularityScore : i \in {j \in 1..Len(tracks) : GenreLabel(tracks[j]) = GenreLabel(t)}}
        mx    == MaxOf(group)
        rel   == IF mx > 0 THEN (t.PopularityScore * 10000) \div mx ELSE 0
    IN ISqrt(rel * 10000) + 2000

\* sqrt(rel) * 0.8 + 0.2 with rel = score / max score of the genre group
RelativeScore(t, tracks) ==
    LET group == {tracks[i].PopularityScore : i \in {j \in 1..Len(tracks) : GenreLabel(tracks[j]) = GenreLabel(t)}}
        mx    == MaxOf(group)
        rel   == IF mx > 0 THEN (t.PopularityScore * 10000) \div mx ELSE 0
    IN (ISqrt(rel * 10000) * 8) \div 10 + 2000

\* the in-place effect of compute_relative_popularity_by_genre
WithRelative(tracks) ==
    [i \in 1..Len(tracks) |-> [tracks[i] EXCEPT !.RelativePopularityScore = RelativeScore(tracks[i], tracks)]]

\* genres in order of first occurrence
RECURSIVE GenreOrder(_)
GenreOrder(tracks) ==
    IF tracks = <<>> THEN <<>>
    ELSE LET g == GenreLabel(tracks[1])
         IN <<g>> \o GenreOrder(SelectSeq(Tail(tracks), LAMBDA t : GenreLabel(t) # g))

RECURSIVE ConcatGroups(_, _)
ConcatGroups(tracks, genres) ==
    IF genres = <<>> THEN <<>>
    ELSE SelectSeq(tracks, LAMBDA t : GenreLabel(t) = genres[1]) \o ConcatGroups(tracks, Tail(genres))

\* the list compute_relative_popularity_by_genre returns: grouped by genre
compute_relative_popularity_by_genre(tracks) ==
    LET scored == WithRelative(tracks)
    IN ConcatGroups(scored, GenreOrder(scored))

(***************************************************************************)
(* Deduplication: services.py                                              *)
(***************************************************************************)
\* the key of deduplicate_tracks_by_title_keep_best: the canonical title, or
\* the file reference when the title canonicalises to nothing
DedupeKey(t) ==
    LET key == normalize_title_for_dedupe(t.Titulo)
    IN IF key # <<>> THEN [kind |-> "title", title |-> key, ruta |-> 0]
       ELSE [kind |-> "ruta", title |-> <<>>, ruta |-> t.Ruta]

\* variant: a comparison on the bitrate alone
IsBetterByBitrate(t, prev) == t.Bitrate > prev.Bitrate

\* bitrate > prev_bitrate or (bitrate == prev_bitrate and pop > prev_pop)
IsBetter(t, prev) ==
    \/ t.Bitrate > prev.Bitrate
    \/ t.Bitrate = prev.Bitrate /\ t.PopularityScore > prev.PopularityScore

DedupeStep(best, t) ==
    LET hits == {i \in 1..Len(best) : DedupeKey(best[i]) = DedupeKey(t)}
    IN IF hits = {} THEN Append(best, t)
       ELSE LET i == CHOOSE j \in hits : TRUE
            IN IF IsBetter(t, best[i]) THEN [best EXCEPT ![i] = t] ELSE best

RECURSIVE DedupeFold(_, _)
DedupeFold(tracks, n) ==
    IF n = 0 THEN <<>> ELSE DedupeStep(DedupeFold(tracks, n - 1), tracks[n])

deduplicate_tracks_by_title_keep_best(tracks) == DedupeFold(tracks, Len(tracks))

(***************************************************************************)
(* Filters: a dict is a function over FilterKeys; a value is a tagged      *)
(* record, NoVal for an absent key                                         *)
(***************************************************************************)
FilterKeys == {"Decada", "genre", "Genero", "year", "Anio", "or", "country", "country_type",
               "ArtistArea", "TempoBPM"}

FV(t, v, lo, hi) == [t |-> t, v |-> v, lo |-> lo, hi |-> hi]
NoVal == FV("none", <<>>, 0, 0)
StrVal(x) == FV("str", <<x>>, 0, 0)
ListVal(xs) == FV("list", xs, 0, 0)
InVal(xs) == FV("in", xs, 0, 0)
RegexVal(x) == FV("regex", <<x>>, 0, 0)
RangeVal(lo, hi) == FV("range", <<>>, lo, hi)
RangesVal(names) == FV("ranges", names, 0, 0)
IntVal(n) == FV("int", <<>>, n, 0)

EmptyFilters == [k \in FilterKeys |-> NoVal]

\* truthiness of a dict
NonEmpty(f) == \E k \in FilterKeys : f[k] # NoVal

\* dict.update
Update(f, g) == [k \in FilterKeys |-> IF g[k] # NoVal THEN g[k] ELSE f[k]]

\* re.search(r"(\d{2,4})s?", decade_str): the start year, or -1 without a match
DecadeStart(tok) ==
    CASE tok = "1980s" -> 1980
      [] tok = "80s" -> 1980
      [] tok = "1990s" -> 1990
      [] tok = "90s" -> 1990
      [] tok = "2000s" -> 2000
      [] OTHER -> -1

\* f"{start}s"
DecadeName(start) ==
    CASE start = 1980 -> "1980s"
      [] start = 1990 -> "1990s"
      [] start = 2000 -> "2000s"
      [] OTHER -> "s"

parse_filters_from_llm(llm_filters) ==
    IF ~NonEmpty(llm_filters) THEN EmptyFilters
    ELSE
    LET val == llm_filters["Decada"]
        decades_to_process == IF val.t \in {"list", "str"} THEN val.v ELSE <<>>
        matched == SelectSeq(decades_to_process, LAMBDA d : DecadeStart(d) >= 0)
        names == [i \in 1..Len(matched) |-> DecadeName(DecadeStart(matched[i]))]
        decadeAnio == IF Len(matched) = 1
                      THEN RangeVal(DecadeStart(matched[1]), DecadeStart(matched[1]) + 10)
                      ELSE NoVal
        genreOut == IF llm_filters["genre"].t = "str" THEN RegexVal(llm_filters["genre"].v[1])
                    ELSE IF llm_filters["genre"].t = "regex" THEN llm_filters["genre"]
                    ELSE IF llm_filters["Genero"].t = "str" THEN RegexVal(llm_filters["Genero"].v[1])
                    ELSE IF llm_filters["Genero"].t = "regex" THEN llm_filters["Genero"]
                    ELSE NoVal
        year == llm_filters["year"]
    IN [k \in FilterKeys |->
          CASE k = "Anio" -> IF year.t = "int" THEN RangeVal(year.lo, year.lo + 1) ELSE decadeAnio
            [] k = "or" -> IF Len(matched) > 1 THEN RangesVal(names) ELSE NoVal
            [] k = "Decada" -> IF Len(matched) = 1 THEN StrVal(names[1])
                               ELSE IF Len(matched) > 1 THEN InVal(names)
                               ELSE NoVal
            [] k = "Genero" -> genreOut
            [] OTHER -> NoVal]

\* the emotion words of the acoustic profiles
EmotionWords == {"alegre", "feliz", "fiesta", "tranquilo", "triste"}

\* enrich_filters_with_acoustics: a copy of the filters, with the acoustic
\* ranges of the first emotion word the prompt contains
enrich_filters_with_acoustics(words, filters) ==
    IF \E i \in 1..Len(words) : Lower(words[i]) \in EmotionWords
    THEN [filters EXCEPT !["TempoBPM"] = RangeVal(100, 140)]
    ELSE filters

(***************************************************************************)
(* Catalog queries                                                         *)
(***************************************************************************)
\* {"$regex": w, "$options": "i"} against a one-token field
RegexMatchesField(w, field) == w # "" /\ Lower(w) = Lower(field)

\* {"$regex": w, "$options": "i"} against a title
RegexMatchesTitle(w, title) == w # "" /\ \E i \in 1..Len(title) : Lower(title[i]) = Lower(w)

\* one document against one key of a normalised filter dict
MatchesKey(t, k, val) ==
    CASE val = NoVal -> TRUE
      [] k = "Anio" /\ val.t = "range" -> val.lo <= t.Anio /\ t.Anio < val.hi
      [] k = "or" /\ val.t = "ranges" ->
            \E i \in 1..Len(val.v) : DecadeStart(val.v[i]) <= t.Anio /\ t.Anio < DecadeStart(val.v[i]) + 10
      [] k = "Decada" /\ val.t = "str" -> t.Decada = val.v[1]
      [] k = "Decada" /\ val.t = "in" -> t.Decada \in Range(val.v)
      [] k = "Genero" /\ val.t = "regex" -> RegexMatchesField(val.v[1], t.Genero)
      [] OTHER -> FALSE

\* collection.find(filters): every key of the dict must match
MatchesFilters(t, f) == \A k \in FilterKeys : MatchesKey(t, k, f[k])

\* the $or of the clauses built from one suggestion
MatchesSuggestion(t, s) ==
    \/ s.titulo # "" /\ RegexMatchesTitle(s.titulo, t.Titulo)
    \/ s.artista # "" /\ RegexMatchesField(s.artista, t.Artista)

\* words of the prompt longer than three characters
ShortTokens == {"pop", "80s", "de", "5", "6", "3"}
Keywords(words) == SelectSeq(LowerSeq(words), LAMBDA w : w \notin ShortTokens)

\* $or of Genero / Titulo / Artista regexes over the keywords
MatchesKeywords(t, kws) ==
    \E i \in 1..Len(kws) :
        \/ RegexMatchesField(kws[i], t.Genero)
        \/ RegexMatchesTitle(kws[i], t.Titulo)
        \/ RegexMatchesField(kws[i], t.Artista)

\* the loop "if ruta and ruta not in seen_rutas: append; stop at limit"
RECURSIVE AddUnseen(_, _, _)
AddUnseen(results, found, limit) ==
    IF found = <<>> \/ Len(results) >= limit THEN results
    ELSE LET f == Head(found)
             fresh == f.Ruta # 0 /\ \A i \in 1..Len(results) : results[i].Ruta # f.Ruta
         IN AddUnseen(IF fresh THEN Append(results, f) ELSE results, Tail(found), limit)

(***************************************************************************)
(* search_tracks_in_mongo: four tiers over one local seen set.  "up" says  *)
(* whether the store answers during the call.                              *)
(***************************************************************************)
\* tier 1, one suggestion: find(query).limit(5); an exception gives found = []
SuggestionFound(s, nf, cat, up) ==
    IF s.titulo = "" /\ s.artista = "" /\ ~NonEmpty(nf) THEN <<>>
    ELSE IF ~up THEN <<>>
    ELSE Take(SelectSeq(CatalogSeq(cat),
                        LAMBDA t : /\ (s.titulo # "" \/ s.artista # "") => MatchesSuggestion(t, s)
                                   /\ MatchesFilters(t, nf)),
              PerSuggestionLimit)

RECURSIVE SearchBySuggestions(_, _, _, _, _, _)
SearchBySuggestions(results, sugerencia, nf, limit, cat, up) ==
    IF sugerencia = <<>> \/ Len(results) >= limit THEN results
    ELSE SearchBySuggestions(AddUnseen(results, SuggestionFound(Head(sugerencia), nf, cat, up), limit),
                             Tail(sugerencia), nf, limit, cat, up)

\* tier 2: find(normalized_filters).sort("PopularityScore", -1).limit(limit * 2)
SearchDirect(results, nf, limit, cat, up) ==
    IF Len(results) < limit /\ NonEmpty(nf) /\ up
    THEN AddUnseen(results,
                   Take(SortByStoredPopDesc(SelectSeq(CatalogSeq(cat), LAMBDA t : MatchesFilters(t, nf))),
                        limit * 2),
                   limit)
    ELSE results

\* tier 3: find({"Decada": decade}).sort("PopularityScore", -1).limit(limit)
SearchByDecade(results, nf, limit, cat, up) ==
    IF Len(results) < limit /\ nf["Decada"] # NoVal /\ up
    THEN AddUnseen(results,
                   Take(SortByStoredPopDesc(SelectSeq(CatalogSeq(cat),
                                                      LAMBDA t : MatchesKey(t, "Decada", nf["Decada"]))),
                        limit),
                   limit)
    ELSE results

\* tier 4 runs only without suggestions, without filters and with keywords
KeywordTierRuns(results, sugerencia, nf, limit, words) ==
    /\ Len(results) < limit
    /\ sugerencia = <<>>
    /\ ~NonEmpty(nf)
    /\ Keywords(words) # <<>>

\* tier 4: find(keyword_query).limit(limit), outside any try block
SearchByKeywords(results, sugerencia, nf, limit, cat, words) ==
    IF KeywordTierRuns(results, sugerencia, nf, limit, words)
    THEN AddUnseen(results,
                   Take(SelectSeq(CatalogSeq(cat), LAMBDA t : MatchesKeywords(t, Keywords(words))), limit),
                   limit)
    ELSE results

\* the result list, whether the call raised, and whether a query failed
search_tracks_in_mongo(sugerencia, llm_filters, limit, cat, words, up) ==
    LET normalized_filters == parse_filters_from_llm(llm_filters)
        r1 == SearchBySuggestions(<<>>, sugerencia, normalized_filters, limit, cat, up)
        r2 == SearchDirect(r1, normalized_filters, limit, cat, up)
        r3 == SearchByDecade(r2, normalized_filters, limit, cat, up)
        tier4 == KeywordTierRuns(r3, sugerencia, normalized_filters, limit, words)
        asked1 == \E i \in 1..Len(sugerencia) :
                     sugerencia[i].titulo # "" \/ sugerencia[i].artista # "" \/ NonEmpty(normalized_filters)
        asked2 == Len(r1) < limit /\ NonEmpty(normalized_filters)
    IN [results |-> IF tier4 /\ ~up THEN <<>>
                    ELSE SearchByKeywords(r3, sugerencia, normalized_filters, limit, cat, words),
        raised  |-> tier4 /\ ~up,
        failed  |-> ~up /\ (asked1 \/ asked2 \/ tier4)]

(***************************************************************************)
(* Post-processing: services.py                                            *)
(***************************************************************************)
\* genre or first title word contained in the prompt; the empty string is
\* contained in every prompt
filter_gross_incongruities(tracks, words) ==
    LET q == Range(LowerSeq(words))
        Keeps(t) == \/ t.Genero = "" \/ Lower(t.Genero) \in q
                    \/ t.Titulo = <<>> \/ Lower(t.Titulo[1]) \in q
    IN SelectSeq(tracks, Keeps)

\* album_key = f"{artist}::{album}" if album else artist
AlbumKey(t) == IF t.Album # "" THEN <<t.Artista, t.Album>> ELSE <<t.Artista>>

RECURSIVE LimitFold(_, _)
LimitFold(sorted, n) ==
    IF n = 0 THEN <<>>
    ELSE LET acc == LimitFold(sorted, n - 1)
             t == sorted[n]
             artistCount == Cardinality({i \in 1..Len(acc) : acc[i].Artista = t.Artista})
             albumCount == Cardinality({i \in 1..Len(acc) : AlbumKey(acc[i]) = AlbumKey(t)})
         IN IF artistCount >= MaxPerArtist \/ albumCount >= MaxPerAlbum THEN acc
            ELSE Append(acc, t)

limit_tracks_by_artist_album(tracks_list) ==
    LET sorted == SortByRelDesc(tracks_list)
    IN LimitFold(sorted, Len(sorted))

\* variant: post-processing without the deduplication step
postprocessing_without_dedupe(tracks, words, limit, cat, up) ==
    IF tracks = <<>> THEN tracks
    ELSE LET global_max == get_global_max_values(cat, up)
             scored == WithPopularity(tracks, global_max)
             relative == WithRelative(scored)
             filtered == filter_gross_incongruities(relative, words)
             limited == limit_tracks_by_artist_album(filtered)
         IN Take(SortByRelDesc(limited), limit)

\* the list apply_intelligent_postprocessing hands to the limiter
limiter_input(tracks, words, cat, up) ==
    LET global_max == get_global_max_values(cat, up)
        scored == WithPopularity(tracks, global_max)
        deduped == deduplicate_tracks_by_title_keep_best(scored)
        relative == WithRelative(deduped)
    IN filter_gross_incongruities(relative, words)

apply_intelligent_postprocessing(tracks, words, limit, cat, up) ==
    IF tracks = <<>> THEN tracks
    ELSE LET global_max == get_global_max_values(cat, up)
             scored == WithPopularity(tracks, global_max)
             deduped == deduplicate_tracks_by_title_keep_best(scored)
             relative == WithRelative(deduped)
             filtered == filter_gross_incongruities(relative, words)
             limited == limit_tracks_by_artist_album(filtered)
         IN Take(SortByRelDesc(limited), limit)

(***************************************************************************)
(* Intent analysis: intent_analysis.py, utils.py                           *)
(***************************************************************************)
\* int(m.group(1)) for the first run of one to three digits of a token, or -1
NumberOf(tok) ==
    CASE tok = "3" -> 3
      [] tok = "5" -> 5
      [] tok = "6" -> 6
      [] tok = "80s" -> 80
      [] tok = "1980s" -> 198
      [] tok = "1985" -> 198
      [] OTHER -> -1

\* variant: the first number of the text as it stands
extract_limit_unclamped(words) ==
    LET i == FirstIn([j \in 1..Len(words) |-> NumberOf(words[j]) >= 0], {TRUE}, 1)
    IN IF i > Len(words) THEN 0 ELSE NumberOf(words[i])

\* extract_limit_directly: max(5, min(n, 100)) of the first number, 0 for None
extract_limit_directly(words) ==
    LET i == FirstIn([j \in 1..Len(words) |-> NumberOf(words[j]) >= 0], {TRUE}, 1)
    IN IF i > Len(words) THEN 0
       ELSE Max(MinDirectLimit, Min(NumberOf(words[i]), MaxDirectLimit))

\* the values the "limit" field of an analysis may hold: absent, a number, a text
LimitValue(t, n) == [t |-> t, n |-> n]
NoLimit == LimitValue("none", 0)
LimitValues == {NoLimit, LimitValue("text", 0)}
               \cup {LimitValue("int", n) : n \in {-3, 0, 1, 7, 50, 100, 250}}

\* validate_and_normalize_limit: max(10, min(int(value), 100)); where int(value)
\* raises, as for None, the directly extracted limit, or 30
validate_and_normalize_limit(value, words) ==
    IF value.t = "int" THEN Max(MinModelLimit, Min(value.n, MaxDirectLimit))
    ELSE IF extract_limit_directly(words) # 0 THEN extract_limit_directly(words)
    ELSE DefaultDetectedLimit

\* detect_country_intent on the country words of the model
CountryWords == {"chile"}
detect_country_intent(words) ==
    IF \E i \in 1..Len(words) : Lower(words[i]) \in CountryWords THEN "Chile" ELSE ""

\* the first words of the popularity phrases ("popular en", "top en", "tendencias en")
PopularityWords == {"popular", "top", "tendencias"}

\* the kind of the detected country: "popular_in" with a popularity phrase
detect_country_type(words) ==
    IF detect_country_intent(words) = "" THEN ""
    ELSE IF \E i \in 1..(Len(words) - 1) :
                Lower(words[i]) \in PopularityWords /\ Lower(words[i + 1]) = "en"
         THEN "popular_in"
    ELSE "origin"

\* the words that name a region
RegionWords == {"latina", "latino", "latam", "europea", "europa", "usa"}

\* detect_region_from_query: the query names a region
detect_region_from_query(words) ==
    \E i \in 1..Len(words) : Lower(words[i]) \in RegionWords

\* analyze_query_intent: the JSON of the model's answer is never recovered
\* (extract_json_from_text of a dict is None), so the analysis holds only the
\* deterministic country and limit; enhance_region_detection sets the type,
\* and clears the country, of a query that names a region; "" is a missing key
analyze_query_intent(words) ==
    [type |-> IF detect_region_from_query(words) THEN "region_request" ELSE "",
     country |-> IF detect_region_from_query(words) THEN "" ELSE detect_country_intent(words),
     country_type |-> IF detect_region_from_query(words) THEN "" ELSE detect_country_type(words),
     detected_limit |-> validate_and_normalize_limit(NoLimit, words),
     artist |-> "", genre |-> "", decade |-> "", mood |-> ""]

\* int(m.group(0)) for the first (19|20)dd of a token, or 0
YearIn(tok) ==
    CASE tok = "1985" -> 1985
      [] tok = "1980s" -> 1980
      [] OTHER -> 0

\* get_improved_fallback_analysis: the analysis built from the text alone
get_improved_fallback_analysis(words) ==
    LET lower == LowerSeq(words)
        i == FirstIn([j \in 1..Len(lower) |-> YearIn(lower[j]) > 0], {TRUE}, 1)
        year == IF i > Len(lower) THEN 0 ELSE YearIn(lower[i])
    IN [type |-> "fallback",
        genre |-> IF \E j \in 1..Len(lower) : lower[j] = "rock" THEN "rock"
                  ELSE IF \E j \in 1..Len(lower) : lower[j] = "pop" THEN "pop"
                  ELSE "",
        decade |-> IF year > 0 THEN DecadeName((year \div 10) * 10) ELSE "",
        year |-> year,
        country |-> detect_country_intent(lower),
        country_type |-> detect_country_type(lower),
        detected_limit |-> IF extract_limit_directly(words) # 0
                           THEN extract_limit_directly(words)
                           ELSE DefaultDetectedLimit]

adjust_limit_based_on_complexity(base_limit, analysis) ==
    LET complexity == (IF analysis.country # "" THEN 1 ELSE 0) + (IF analysis.decade # "" THEN 1 ELSE 0)
                      + (IF analysis.genre # "" THEN 1 ELSE 0) + (IF analysis.mood # "" THEN 1 ELSE 0)
                      + (IF analysis.artist # "" THEN 2 ELSE 0)
    IN IF complexity >= 3 THEN Min(base_limit, ComplexityCapHigh)
       ELSE IF complexity = 2 THEN Min(base_limit, ComplexityCapMid)
       ELSE base_limit

(***************************************************************************)
(* The language-model service                                              *)
(***************************************************************************)
Suggestion(ti, ar) == [titulo |-> ti, artista |-> ar]
SSong == Suggestion("song", "")
SNobody == Suggestion("nope", "nobody")

FRock == [EmptyFilters EXCEPT !["genre"] = StrVal("Rock")]
F80s == [EmptyFilters EXCEPT !["Decada"] = StrVal("80s")]
FYear == [EmptyFilters EXCEPT !["year"] = IntVal(1985)]

\* what the service may answer: no answer at all ("error"), text that no
\* recovery step parses ("raw"), a JSON object whose "suggestions" is null
\* ("null"), or a JSON object with suggestions and filters ("json").  The
\* suggestions and filters of a "raw" answer are what its text talks about.
LLMResponse(kind, sug, filt) == [kind |-> kind, suggestions |-> sug, filters |-> filt]
LLMResponses ==
    { LLMResponse("error", <<>>, EmptyFilters),
      LLMResponse("raw", <<SSong>>, FRock),
      LLMResponse("null", <<>>, EmptyFilters),
      LLMResponse("json", <<>>, EmptyFilters),
      LLMResponse("json", <<SSong>>, EmptyFilters),
      LLMResponse("json", <<SNobody>>, EmptyFilters),
      LLMResponse("json", <<SSong>>, F80s),
      LLMResponse("json", <<>>, FRock),
      LLMResponse("json", <<>>, FYear) }

\* variant: a failed request is issued a second time
OllamaRequestsWithRetry(resp) == IF resp.kind = "error" THEN 2 ELSE 1

\* number of HTTP requests one call_ollama_safe makes
OllamaRequests(resp) == 1

\* variant: the suggestions and filters an unparsed answer talks about are used
call_ollama_unchecked(resp) == [suggestions |-> resp.suggestions, filters |-> resp.filters]

\* call_ollama_safe followed by result.get("suggestions", []) and
\* result.get("filters", {}): {"error": ..} and {"raw": ..} have neither key
call_ollama_safe(resp) ==
    IF resp.kind = "json"
    THEN [suggestions |-> resp.suggestions, filters |-> resp.filters]
    ELSE [suggestions |-> <<>>, filters |-> EmptyFilters]

\* a suggestion dict of the model taken as a track: none of the catalog
\* fields is present
LLMItem(s) ==
    [Ruta |-> 0, Titulo |-> <<>>, Artista |-> "", Album |-> "", Anio |-> 0,
     Decada |-> "", Genero |-> "", Bitrate |-> 0,
     LastFMPlaycount |-> 0, LastFMListeners |-> 0, YouTubeViews |-> 0,
     PopularityScore |-> 0, RelativePopularityScore |-> -1,
     src |-> "llm"]

\* result3.get("suggestions", []) taken as tracks
suggested_tracks(resp) ==
    IF resp.kind = "json"
    THEN [i \in 1..Len(resp.suggestions) |-> LLMItem(resp.suggestions[i])]
    ELSE <<>>

\* variant: the validated list cut at the limit, without the local tracks
extract_validated_unpadded(resp, local_tracks, limit) ==
    Take(IF suggested_tracks(resp) # <<>> THEN suggested_tracks(resp) ELSE local_tracks, limit)

\* postprocessing_utils.extract_validated_tracks
extract_validated_tracks(resp, local_tracks, limit) ==
    LET given == IF resp.kind = "json"
                 THEN [i \in 1..Len(resp.suggestions) |-> LLMItem(resp.suggestions[i])]
                 ELSE <<>>
        validated == IF given # <<>> THEN given ELSE local_tracks
        additional == SelectSeq(local_tracks, LAMBDA t : t \notin Range(validated))
    IN IF Len(validated) < limit
       THEN Take(validated \o Take(additional, limit - Len(validated)), limit)
       ELSE Take(validated, limit)

(***************************************************************************)
(* Fallbacks and the controller's helpers                                  *)
(***************************************************************************)
\* services.flexible_fallback_selection: re.split(r"\\W+", ...) splits on a
\* backslash followed by W's, so the only "word" is the whole lower-cased
\* query, kept when it is longer than three characters
FallbackWord(words) ==
    IF Len(words) = 1 /\ Lower(words[1]) \in ShortTokens THEN <<>> ELSE LowerSeq(words)

\* the whole query as one regex against Genero and Titulo
MatchesWholeQuery(t, w) ==
    \/ Len(w) = 1 /\ RegexMatchesField(w[1], t.Genero)
    \/ \E i \in 0..(Len(t.Titulo) - Len(w)) :
          \A j \in 1..Len(w) : Lower(t.Titulo[i + j]) = w[j]

\* find({"$or": regex_or}).limit(limit); an empty $or or a store failure is
\* an exception, answered with []
flexible_fallback_selection(words, limit, cat, up) ==
    IF FallbackWord(words) = <<>> \/ ~up THEN <<>>
    ELSE Take(SelectSeq(CatalogSeq(cat), LAMBDA t : MatchesWholeQuery(t, FallbackWord(words))), limit)

apply_limits_and_fallback(results, words, limit, cat, up) ==
    LET limited == limit_tracks_by_artist_album(results)
    IN IF limited = <<>> THEN Take(flexible_fallback_selection(words, limit, cat, up), limit)
       ELSE Take(limited, limit)

\* round(x, 3) at scale 10^4
Round3(x) == ((x + 5) \div 10) * 10

\* controllers._simplify_tracks
simplify_track(t) ==
    [Ruta |-> t.Ruta, Titulo |-> t.Titulo, Artista |-> t.Artista, Album |-> t.Album,
     Anio |-> t.Anio, Genero |-> t.Genero, Bitrate |-> t.Bitrate,
     RelativePopularityScore |-> Round3(Rel(t)), src |-> t.src]

\* variant: a comparison that never ends the cycle
NeverReached(tracks, limit) == FALSE

\* the comparison that ends the cycle after phase 1 and after phase 2
TargetReached(tracks, limit) == Len(tracks) >= limit

\* the standard flow of query_controller from the cycle's results to final_tracks
\* the list query_controller hands to apply_limits_and_fallback
controller_cleaned(results, words, cat, up) ==
    LET global_max == get_global_max_values(cat, up)
        scored == WithPopularity(results, global_max)
        enriched == compute_relative_popularity_by_genre(scored)
    IN filter_gross_incongruities(enriched, words)

controller_final_tracks(results, words, detected_limit, cat, up) ==
    LET global_max == get_global_max_values(cat, up)
        scored == WithPopularity(results, global_max)
        enriched == compute_relative_popularity_by_genre(scored)
        cleaned == filter_gross_incongruities(enriched, words)
        limited == apply_limits_and_fallback(cleaned, words, detected_limit, cat, up)
    IN Take(SortByRelDesc(limited), detected_limit)

(***************************************************************************)
(* State                                                                   *)
(***************************************************************************)
VARIABLES
    catalog,                  \* the tracks collection
    pc,                       \* position of the request
    query_text,               \* the request's text, as tokens
    excluded,                 \* titles and file references of the previous playlist
    llm_analysis,             \* result of analyze_query_intent
    default_limit,            \* parameter of hybrid_playlist_cycle_enhanced
    adjusted_limit,           \* the cycle's target
    filters,                  \* the cycle's filter dict
    processed_tracks_phase1,
    all_tracks_phase2,
    final_processed_phase2,
    llm_raw,                  \* what the cycle returns: results and phase
    final_tracks,             \* the controller's final list
    response,                 \* status and playlist sent to the caller
    playlists,                \* documents inserted into playlists_col
    llmLog,                   \* one entry per call of the language model
    searchLog,                \* one entry per search_tracks_in_mongo call
    decisions,                \* one entry per comparison with the target
    limiterLog,               \* one entry per run of limit_tracks_by_artist_album
    dbFailures,               \* steps taken while the store was down
    queryFailed,              \* some catalog query of the request failed
    tracks_list,              \* a list given to deduplicate_tracks_by_title_keep_best
    deduplicated,             \* the list it returns
    title_text,               \* a title given to normalize_title_for_dedupe
    canonical,                \* the title it returns
    users,                    \* the users collection: the session fields of each user
    clock,                    \* datetime.utcnow()
    report,                   \* the outcome of the last token validation
    ended                     \* the tokens whose session a logout has ended

vars == <<catalog, pc, query_text, excluded, llm_analysis, default_limit, adjusted_limit, filters,
          processed_tracks_phase1, all_tracks_phase2, final_processed_phase2, llm_raw,
          final_tracks, response, playlists, llmLog, searchLog, decisions,
          limiterLog, dbFailures, queryFailed, tracks_list, deduplicated, title_text, canonical,
          users, clock, report, ended>>

cycleVars == <<adjusted_limit, filters, processed_tracks_phase1, all_tracks_phase2,
               final_processed_phase2, llm_raw>>
logVars == <<llmLog, searchLog, decisions, limiterLog>>
requestVars == <<query_text, excluded, llm_analysis, default_limit>>
outVars == <<final_tracks, response, playlists>>
dedupeVars == <<tracks_list, deduplicated>>
canonVars == <<title_text, canonical>>
authVars == <<users, clock, report, ended>>

(***************************************************************************)
(* Sessions: auth/controllers.py, auth/utils.py, auth_beta2.py             *)
(***************************************************************************)
MaxClock == 2
\* the life of a session, in ticks of the clock
SessionTtl == 1
MaxTokenIds == 2

Emails == {"u1"}

\* no token: None, or a field that is unset
NoToken == [kind |-> "none", email |-> "", exp |-> 0, id |-> 0]

\* jwt.encode of {"email", "exp"}: the same claims give the same token
JwtToken(email, exp) == [kind |-> "jwt", email |-> email, exp |-> exp, id |-> 0]

\* secrets.token_hex(32): an opaque token
HexToken(id) == [kind |-> "hex", email |-> "", exp |-> 0, id |-> id]

JwtTokens == {JwtToken(e, x) : e \in Emails, x \in 1..(MaxClock + SessionTtl)}
HexTokens == {HexToken(id) : id \in 1..MaxTokenIds}

\* the session fields of a user document: "token" of auth/controllers.py,
\* "session_token" and "session_expires_at" of auth_beta2.py
NoSession == [token |-> NoToken, session_token |-> NoToken, session_expires_at |-> 0]

NoReport == [impl |-> "", token |-> NoToken, valid |-> FALSE, at |-> 0,
             stored |-> FALSE, expires |-> 0, ended |-> FALSE]

\* create_access_token: the claims with exp = utcnow() + the life of the session
create_access_token(email, now) == JwtToken(email, now + SessionTtl)

\* decode_access_token: the claims of an unexpired token, None of an expired one
decode_access_token(token, now) == IF token.exp > now THEN token ELSE NoToken

\* the texts a caller may send
Queries == { <<>>, <<"Rock">>, <<"5", "rock">>, <<"Zzzz">>, <<"pop">>, <<"rock", "chile">>,
             <<"rock", "1985">>, <<"3", "a2">> }

\* the items of a playlist document stored by an earlier request for "5 rock"
PreviousItems == <<[Ruta |-> T1.Ruta, Titulo |-> T1.Titulo], [Ruta |-> T2.Ruta, Titulo |-> T2.Titulo]>>

\* a request: its text and whether it regenerates the stored playlist
Requests == {[query |-> q, regenerate |-> FALSE] : q \in Queries}
            \cup {[query |-> <<"5", "rock">>, regenerate |-> TRUE]}

NoExclusion == [titles |-> {}, paths |-> {}]

\* query_controller, step 3: the titles and paths of the previous playlist; a
\* failed read of the document leaves both sets empty, as without regenerate
previous_exclusions(regenerate) ==
    IF regenerate
    THEN [titles |-> {LowerSeq(PreviousItems[i].Titulo) : i \in 1..Len(PreviousItems)},
          paths |-> {PreviousItems[i].Ruta : i \in 1..Len(PreviousItems)}]
    ELSE NoExclusion

exclude_previous_tracks(tracks, excluded_titles, excluded_paths) ==
    IF excluded_titles = {} /\ excluded_paths = {} THEN tracks
    ELSE SelectSeq(tracks, LAMBDA t : /\ LowerSeq(t.Titulo) \notin excluded_titles
                                      /\ t.Ruta \notin excluded_paths)

\* the values the cycle's default_limit parameter takes
TargetLimits == {2, MaxTarget}

NoAnalysis == [type |-> "", country |-> "", country_type |-> "", detected_limit |-> 0, artist |-> "", genre |-> "",
               decade |-> "", mood |-> ""]
NoResponse == [status |-> 0, playlist |-> <<>>]
NoCycleResult == [results |-> <<>>, phase |-> -1]

Init ==
    /\ catalog \in Catalogs
    /\ pc = "idle"
    /\ query_text = <<>>
    /\ excluded = NoExclusion
    /\ llm_analysis = NoAnalysis
    /\ default_limit = 0
    /\ adjusted_limit = 0
    /\ filters = EmptyFilters
    /\ processed_tracks_phase1 = <<>>
    /\ all_tracks_phase2 = <<>>
    /\ final_processed_phase2 = <<>>
    /\ llm_raw = NoCycleResult
    /\ final_tracks = <<>>
    /\ response = NoResponse
    /\ playlists = <<>>
    /\ llmLog = <<>>
    /\ searchLog = <<>>
    /\ decisions = <<>>
    /\ limiterLog = <<>>
    /\ dbFailures = 0
    /\ queryFailed = FALSE
    /\ tracks_list = <<>>
    /\ deduplicated = <<>>
    /\ title_text = <<>>
    /\ canonical = <<>>
    /\ users = [e \in Emails |-> NoSession]
    /\ clock = 0
    /\ report = NoReport
    /\ ended = {}

\* the store may be down during a step, MaxDbFail times per request
StoreAnswers(up) == up \/ dbFailures < MaxDbFail
StoreStep(up, asked) ==
    /\ dbFailures' = IF up THEN dbFailures ELSE dbFailures + 1
    /\ queryFailed' = (queryFailed \/ (~up /\ asked))

(***************************************************************************)
(* query_controller: validation and intent analysis                        *)
(***************************************************************************)
\* a payload without query text is rejected with 400 before anything runs
\* a payload whose query is accepted whatever it holds
query_always_present(q) == FALSE

\* the payload carries neither a query nor a prompt
query_missing(q) == q = <<>>

ReceiveQuery(q, regenerate) ==
    /\ pc = "idle"
    /\ UNCHANGED dedupeVars
    /\ UNCHANGED canonVars
    /\ UNCHANGED authVars
    /\ query_text' = q
    /\ IF query_missing(q)
       THEN /\ response' = [status |-> 400, playlist |-> <<>>]
            /\ excluded' = excluded
            /\ pc' = "done"
       ELSE /\ response' = response
            /\ excluded' = previous_exclusions(regenerate)
            /\ pc' = "intent"
    /\ UNCHANGED <<catalog, llm_analysis, default_limit, final_tracks, playlists,
                   dbFailures, queryFailed>>
    /\ UNCHANGED cycleVars
    /\ UNCHANGED logVars

AnalyzeIntent ==
    /\ pc = "intent"
    /\ UNCHANGED dedupeVars
    /\ UNCHANGED canonVars
    /\ UNCHANGED authVars
    /\ llm_analysis' = analyze_query_intent(query_text)
    /\ pc' = "phase1"
    /\ UNCHANGED <<catalog, query_text, excluded, default_limit, dbFailures, queryFailed>>
    /\ UNCHANGED cycleVars
    /\ UNCHANGED logVars
    /\ UNCHANGED outVars

(***************************************************************************)
(* hybrid_playlist_cycle_enhanced                                          *)
(***************************************************************************)
LlmEntry(phase, resp, used, added) ==
    [phase |-> phase, kind |-> resp.kind, requests |-> OllamaRequests(resp),
     suggestions |-> used, added |-> added]
SearchEntry(phase, given, found) ==
    [phase |-> phase, filters |-> given, refs |-> [i \in 1..Len(found) |-> found[i].Ruta]]
Decision(phase, pool, target) ==
    [phase |-> phase, pool |-> pool, target |-> target]
Ids(tracks) == [i \in 1..Len(tracks) |-> tracks[i].Ruta]
LimiterEntry(site, entering, returned, limit) ==
    [site |-> site, pool |-> Ids(entering),
     admitted |-> Ids(limit_tracks_by_artist_album(entering)),
     returned |-> Ids(returned), limit |-> limit]
\* the limiter's run inside apply_intelligent_postprocessing; none for an empty list
PostprocessingRun(site, tracks, words, limit, cat, up) ==
    IF tracks = <<>> THEN <<>>
    ELSE <<LimiterEntry(site, limiter_input(tracks, words, cat, up),
                        apply_intelligent_postprocessing(tracks, words, limit, cat, up), limit)>>

\* phase 1: one model call, the filters, the tiered search, post-processing,
\* the comparison with the target
Phase1(resp, up, dl) ==
    /\ pc = "phase1"
    /\ UNCHANGED dedupeVars
    /\ UNCHANGED canonVars
    /\ UNCHANGED authVars
    /\ StoreAnswers(up)
    /\ LET target == adjust_limit_based_on_complexity(dl, llm_analysis)
           result == call_ollama_safe(resp)
           llm_filters == IF llm_analysis.country # ""
                          THEN [result.filters EXCEPT !["country"] = StrVal(llm_analysis.country),
                                                      !["country_type"] = StrVal(llm_analysis.country_type)]
                          ELSE result.filters
           parsed == enrich_filters_with_acoustics(query_text, parse_filters_from_llm(llm_filters))
           search == search_tracks_in_mongo(result.suggestions, parsed, target, catalog, query_text, up)
           processed == apply_intelligent_postprocessing(search.results, query_text, target, catalog, up)
       IN /\ default_limit' = dl
          /\ adjusted_limit' = target
          /\ limiterLog' = IF resp.kind = "null" \/ search.raised THEN limiterLog
                           ELSE limiterLog \o PostprocessingRun("phase1", search.results, query_text,
                                                                target, catalog, up)
          /\ IF resp.kind = "null"
             THEN \* len(None) raises before the filters are built
                  /\ llmLog' = Append(llmLog, LlmEntry(1, resp, <<>>, EmptyFilters))
                  /\ pc' = "emergency"
                  /\ UNCHANGED <<filters, processed_tracks_phase1, llm_raw, searchLog, decisions>>
             ELSE /\ llmLog' = Append(llmLog, LlmEntry(1, resp, result.suggestions, parse_filters_from_llm(result.filters)))
                  /\ filters' = parsed
                  /\ searchLog' = Append(searchLog, SearchEntry(1, parsed, search.results))
                  /\ IF search.raised
                     THEN /\ pc' = "emergency"
                          /\ UNCHANGED <<processed_tracks_phase1, llm_raw, decisions>>
                     ELSE /\ processed_tracks_phase1' = processed
                          /\ decisions' = Append(decisions, Decision(1, processed, target))
                          /\ IF TargetReached(processed, target)
                             THEN /\ llm_raw' = [results |-> processed, phase |-> 1]
                                  /\ pc' = "controller"
                             ELSE /\ llm_raw' = llm_raw
                                  /\ pc' = "phase2"
    /\ StoreStep(up, TRUE)
    /\ UNCHANGED <<catalog, query_text, excluded, llm_analysis, all_tracks_phase2,
                   final_processed_phase2>>
    /\ UNCHANGED outVars

\* phase 2: a second model call for the missing tracks, a search for twice
\* the missing number, post-processing of the new and of the combined list
Phase2(resp, up) ==
    /\ pc = "phase2"
    /\ UNCHANGED dedupeVars
    /\ UNCHANGED canonVars
    /\ UNCHANGED authVars
    /\ StoreAnswers(up)
    /\ LET missing == adjusted_limit - Len(processed_tracks_phase1)
           result2 == call_ollama_safe(resp)
           added == parse_filters_from_llm(result2.filters)
           merged == IF NonEmpty(result2.filters) THEN Update(filters, added) ELSE filters
           search == search_tracks_in_mongo(result2.suggestions, merged, missing * 2, catalog, query_text, up)
           processed2 == apply_intelligent_postprocessing(search.results, query_text, missing, catalog, up)
           combined == processed_tracks_phase1 \o processed2
           final2 == apply_intelligent_postprocessing(combined, query_text, adjusted_limit, catalog, up)
       IN /\ limiterLog' = IF resp.kind = "null" \/ search.raised THEN limiterLog
                           ELSE limiterLog
                                \o PostprocessingRun("phase2 new", search.results, query_text,
                                                     missing, catalog, up)
                                \o PostprocessingRun("phase2", combined, query_text,
                                                     adjusted_limit, catalog, up)
          /\ IF resp.kind = "null"
             THEN /\ llmLog' = Append(llmLog, LlmEntry(2, resp, <<>>, EmptyFilters))
                  /\ pc' = "emergency"
                  /\ UNCHANGED <<filters, all_tracks_phase2, final_processed_phase2, llm_raw,
                                 searchLog, decisions>>
             ELSE /\ llmLog' = Append(llmLog, LlmEntry(2, resp, result2.suggestions, added))
                  /\ filters' = merged
                  /\ searchLog' = Append(searchLog, SearchEntry(2, merged, search.results))
                  /\ IF search.raised
                     THEN /\ pc' = "emergency"
                          /\ UNCHANGED <<all_tracks_phase2, final_processed_phase2, llm_raw, decisions>>
                     ELSE /\ all_tracks_phase2' = combined
                          /\ final_processed_phase2' = final2
                          /\ decisions' = Append(decisions, Decision(2, final2, adjusted_limit))
                          /\ IF TargetReached(final2, adjusted_limit)
                             THEN /\ llm_raw' = [results |-> final2, phase |-> 2]
                                  /\ pc' = "controller"
                             ELSE /\ llm_raw' = llm_raw
                                  /\ pc' = "phase3"
          /\ StoreStep(up, resp.kind # "null" /\ (search.failed \/ processed_tracks_phase1 # <<>>))
    /\ UNCHANGED <<catalog, adjusted_limit, processed_tracks_phase1>>
    /\ UNCHANGED requestVars
    /\ UNCHANGED outVars

\* phase 3: a third model call whose answer is validated against the local
\* list, and a last post-processing
Phase3(resp, up) ==
    /\ pc = "phase3"
    /\ UNCHANGED dedupeVars
    /\ UNCHANGED canonVars
    /\ UNCHANGED authVars
    /\ StoreAnswers(up)
    /\ LET validated == extract_validated_tracks(resp, final_processed_phase2, adjusted_limit)
           final == apply_intelligent_postprocessing(validated, query_text, adjusted_limit, catalog, up)
       IN /\ llmLog' = Append(llmLog, LlmEntry(3, resp, <<>>, EmptyFilters))
          /\ llm_raw' = [results |-> final, phase |-> 3]
          /\ limiterLog' = limiterLog \o PostprocessingRun("phase3", validated, query_text,
                                                          adjusted_limit, catalog, up)
          /\ StoreStep(up, validated # <<>>)
    /\ pc' = "controller"
    /\ UNCHANGED <<catalog, adjusted_limit, filters, processed_tracks_phase1, all_tracks_phase2,
                   final_processed_phase2, searchLog, decisions>>
    /\ UNCHANGED requestVars
    /\ UNCHANGED outVars

\* emergency_fallback: the keyword query inside a try block, then the most
\* popular tracks outside any try block
EmergencyFallback(up) ==
    /\ pc = "emergency"
    /\ UNCHANGED dedupeVars
    /\ UNCHANGED canonVars
    /\ UNCHANGED authVars
    /\ StoreAnswers(up)
    /\ LET kws == Keywords(query_text)
           fallback_tracks == Take(SelectSeq(CatalogSeq(catalog), LAMBDA t : MatchesKeywords(t, kws)),
                                   default_limit * 2)
           random_tracks == Take(SortByStoredPopDesc(CatalogSeq(catalog)), default_limit)
           chosen == IF kws # <<>> THEN fallback_tracks ELSE random_tracks
           processed == apply_intelligent_postprocessing(chosen, query_text, default_limit, catalog, up)
       IN /\ IF up
             THEN /\ llm_raw' = [results |-> processed, phase |-> 0]
                  /\ pc' = "controller"
                  /\ response' = response
             ELSE /\ llm_raw' = llm_raw
                  /\ pc' = "done"
                  /\ response' = [status |-> 500, playlist |-> <<>>]
          /\ limiterLog' = IF up
                           THEN limiterLog \o PostprocessingRun("emergency", chosen, query_text,
                                                                default_limit, catalog, up)
                           ELSE limiterLog
    /\ StoreStep(up, TRUE)
    /\ UNCHANGED <<catalog, adjusted_limit, filters, processed_tracks_phase1, all_tracks_phase2,
                   final_processed_phase2, final_tracks, playlists>>
    /\ UNCHANGED requestVars
    /\ UNCHANGED <<llmLog, searchLog, decisions>>

(***************************************************************************)
(* query_controller: from the cycle's results to the answer                *)
(***************************************************************************)
ControllerFinish(up) ==
    /\ pc = "controller"
    /\ UNCHANGED dedupeVars
    /\ UNCHANGED canonVars
    /\ UNCHANGED authVars
    /\ StoreAnswers(up)
    /\ LET results == exclude_previous_tracks(llm_raw.results, excluded.titles, excluded.paths)
           cleaned == controller_cleaned(results, query_text, catalog, up)
           limit == llm_analysis.detected_limit
       IN /\ final_tracks' = controller_final_tracks(results, query_text, limit, catalog, up)
          /\ limiterLog' = Append(limiterLog,
                                  LimiterEntry("controller", cleaned,
                                               apply_limits_and_fallback(cleaned, query_text, limit, catalog, up),
                                               limit))
    /\ pc' = "persist"
    /\ StoreStep(up, TRUE)
    /\ UNCHANGED <<catalog, response, playlists>>
    /\ UNCHANGED requestVars
    /\ UNCHANGED cycleVars
    /\ UNCHANGED <<llmLog, searchLog, decisions>>

\* playlists_col.insert_one and the response; a failed insert is a 500
Persist(up) ==
    /\ pc = "persist"
    /\ UNCHANGED dedupeVars
    /\ UNCHANGED canonVars
    /\ UNCHANGED authVars
    /\ StoreAnswers(up)
    /\ LET simplified == [i \in 1..Len(final_tracks) |-> simplify_track(final_tracks[i])]
       IN IF up
          THEN /\ playlists' = Append(playlists, simplified)
               /\ response' = [status |-> 200, playlist |-> simplified]
          ELSE /\ playlists' = playlists
               /\ response' = [status |-> 500, playlist |-> <<>>]
    /\ pc' = "done"
    /\ StoreStep(up, FALSE)
    /\ UNCHANGED <<catalog, final_tracks>>
    /\ UNCHANGED requestVars
    /\ UNCHANGED cycleVars
    /\ UNCHANGED logVars

Next ==
    \/ \E r \in Requests : ReceiveQuery(r.query, r.regenerate)
    \/ AnalyzeIntent
    \/ \E resp \in LLMResponses, up \in BOOLEAN, dl \in TargetLimits : Phase1(resp, up, dl)
    \/ \E resp \in LLMResponses, up \in BOOLEAN : Phase2(resp, up)
    \/ \E resp \in LLMResponses, up \in BOOLEAN : Phase3(resp, up)
    \/ \E up \in BOOLEAN : EmergencyFallback(up)
    \/ \E up \in BOOLEAN : ControllerFinish(up)
    \/ \E up \in BOOLEAN : Persist(up)

Spec == Init /\ [][Next]_vars

(***************************************************************************)
(* Properties                                                              *)
(***************************************************************************)
Answered == response.status = 200
Reached(d) == Len(d.pool) >= d.target
FailedCall(e) == e.kind \in {"error", "raw"}
SameKey(a, b) == DedupeKey(a) = DedupeKey(b)
IsCatalogItem(item) == item.src = "catalog" /\ \E t \in catalog : t.Ruta = item.Ruta

NonEmptyWhenCatalogNonEmpty ==
    (Answered /\ catalog # {}) => response.playlist # <<>>

\* C3: every item of a final result, and of the playlist persisted from it,
\* is a track read from the catalog, never an entry of the model's output
OnlyCatalogTracks ==
    /\ \A i \in 1..Len(response.playlist) : IsCatalogItem(response.playlist[i])
    /\ \A p \in 1..Len(playlists) : \A i \in 1..Len(playlists[p]) : IsCatalogItem(playlists[p][i])

\* C4: no two items of a final result have the same canonical title key
NoDuplicateTitles ==
    \A i, j \in 1..Len(response.playlist) :
        i # j => normalize_title_for_dedupe(response.playlist[i].Titulo)
                 # normalize_title_for_dedupe(response.playlist[j].Titulo)

\* C5: the phases run in the order 1, 2, 3; a phase is entered only when the
\* count after the preceding phase is below the target; once a comparison
\* finds the target reached no later model call or catalog search is made
PhasesOrdered ==
    /\ \A i \in 1..Len(llmLog) : llmLog[i].phase = i
    /\ \A i \in 1..Len(searchLog) : searchLog[i].phase = i
    /\ \A i \in 1..Len(decisions) : decisions[i].phase = i
    /\ \A i \in 2..Len(llmLog) : i - 1 <= Len(decisions) /\ ~Reached(decisions[i - 1])
    /\ \A i \in 1..Len(decisions) : Reached(decisions[i]) => Len(llmLog) <= i /\ Len(searchLog) <= i

\* the request ended at the comparison of phase 2, after exactly two calls
EndedAtPhaseTwo ==
    /\ pc = "done"
    /\ Len(decisions) = 2
    /\ ~Reached(decisions[1])
    /\ Reached(decisions[2])
    /\ Len(llmLog) = 2

LlmFailureDegrades ==
    /\ \A i \in 1..Len(llmLog) :
          FailedCall(llmLog[i]) => /\ llmLog[i].suggestions = <<>>
                                   /\ llmLog[i].added = EmptyFilters
                                   /\ i <= 2 => Len(searchLog) >= i
    /\ (pc = "done" /\ dbFailures = 0 /\ \E i \in 1..Len(llmLog) : FailedCall(llmLog[i]))
          => Answered

\* the model failed in all three phases and the caller got a playlist
AllPhasesFailedAnswered ==
    /\ Answered
    /\ Len(llmLog) = 3
    /\ \A i \in 1..3 : FailedCall(llmLog[i])
    /\ response.playlist # <<>>

\* C8: each phase makes at most one request to the model, a failed request
\* is not repeated, and a query makes at most three
OneRequestPerPhase ==
    /\ Len(llmLog) <= 3
    /\ \A i \in 1..Len(llmLog) : llmLog[i].requests <= 1
    /\ \A i, j \in 1..Len(llmLog) : i # j => llmLog[i].phase # llmLog[j].phase

\* a request of phase 1 failed and the query went through all three phases
FailedRequestNotRepeated ==
    /\ pc = "done"
    /\ Len(llmLog) = 3
    /\ llmLog[1].kind = "error"
    /\ llmLog[1].requests = 1

\* C9: a failed catalog query is never followed by a normal response
CatalogFailureSurfaced == queryFailed => ~Answered

\* C10: no file reference is in the candidate pool more than once
SeenAcrossPhases ==
    \A j, k \in 1..Len(all_tracks_phase2) :
        (j # k /\ all_tracks_phase2[j].Ruta # 0)
            => all_tracks_phase2[j].Ruta # all_tracks_phase2[k].Ruta

\* the year of the catalog track behind a file reference
YearOf(ref) == (CHOOSE t \in catalog : t.Ruta = ref).Anio

\* C11: when the filters of a search carry a temporal period, every track the
\* search admits, whatever the tier, has its year inside the period
TemporalFilterRespected ==
    \A i \in 1..Len(searchLog) :
        LET period == searchLog[i].filters["Anio"]
        IN period.t = "range" =>
              \A j \in 1..Len(searchLog[i].refs) :
                  /\ period.lo <= YearOf(searchLog[i].refs[j])
                  /\ YearOf(searchLog[i].refs[j]) < period.hi

\* the filter dict the catalog queries of a search are built from
AppliedFilters(entry) == parse_filters_from_llm(entry.filters)

\* C12: when a country is detected in the query, the catalog queries of every
\* phase carry the detected country as their country filter
CountryFilterApplied ==
    llm_analysis.country # "" =>
        \A i \in 1..Len(searchLog) :
            AppliedFilters(searchLog[i])["country"] = StrVal(llm_analysis.country)

\* C13: when the text of the query names a year, the temporal filter of every
\* search of the cycle is that year, whatever filters the model returns
DeterministicTemporalWins ==
    LET year == get_improved_fallback_analysis(query_text).year
    IN year > 0 =>
          \A i \in 1..Len(searchLog) :
              searchLog[i].filters["Anio"] = RangeVal(year, year + 1)

\* the temporal representations a filter dict holds: a single year or a range
\* of years under "Anio", decades under "Decada" or the "or" of their ranges
SingleYear(f) == f["Anio"].t = "range" /\ f["Anio"].hi = f["Anio"].lo + 1
YearRange(f) == f["Anio"].t = "range" /\ f["Anio"].hi # f["Anio"].lo + 1
Decades(f) == f["Decada"] # NoVal \/ f["or"] # NoVal

\* C14: the filters of the query never hold more than one temporal
\* representation: a single year alone, otherwise a range, otherwise decades
OneTemporalRepresentation ==
    /\ SingleYear(filters) => ~Decades(filters)
    /\ YearRange(filters) => ~Decades(filters)

\* C15: the target every phase compares its pool with is the limit requested
\* in the query
TargetIsRequestedLimit ==
    \A i \in 1..Len(decisions) : decisions[i].target = llm_analysis.detected_limit

\* C16: the limit of every analysis, built from the model's answer or from the
\* text alone, is an integer from 1 to 100
LimitInRange ==
    /\ llm_analysis # NoAnalysis => llm_analysis.detected_limit \in 1..100
    /\ \A value \in LimitValues :
           validate_and_normalize_limit(value, query_text) \in 1..100
    /\ get_improved_fallback_analysis(query_text).detected_limit \in 1..100

\* a query whose first number is beyond the range has been analysed
LimitClamped ==
    /\ pc = "phase1"
    /\ extract_limit_unclamped(query_text) > MaxDirectLimit
    /\ llm_analysis.detected_limit = MaxDirectLimit

\* the tracks of a list by one artist, compared as the limiter compares them
ByArtist(tracks, artist) ==
    Cardinality({i \in 1..Len(tracks) : Lower(tracks[i].Artista) = Lower(artist)})

\* C17: no artist has more than the cap of tracks in the final result of a
\* request
ArtistCapRespected ==
    \A i \in 1..Len(final_tracks) :
        ByArtist(final_tracks, final_tracks[i].Artista) <= MaxPerArtist

\* C18: when the limiter admits fewer tracks than the limit while the list it
\* was given holds more, the list returned is filled from that list, without
\* repeating a file reference, up to the limit or to the whole list
LimiterToppedUp ==
    \A i \in 1..Len(limiterLog) :
        LET e == limiterLog[i]
        IN (Len(e.admitted) < e.limit /\ Len(e.pool) > Len(e.admitted)) =>
              /\ Len(e.returned) = Min(e.limit, Len(e.pool))
              /\ Range(e.returned) \subseteq Range(e.pool)
              /\ \A j, k \in 1..Len(e.returned) : e.returned[j] = e.returned[k] => j = k

\* the title or the file reference of a track is one of the previous playlist
InPrevious(t) ==
    \/ t.Ruta \in excluded.paths
    \/ \E title \in excluded.titles :
          normalize_title_for_dedupe(title) = normalize_title_for_dedupe(t.Titulo)

\* the tracks of the catalog a regenerated playlist may use
Alternatives == {t \in catalog : ~InPrevious(t)}

\* C19: for a regenerate request no track of the previous playlist, by
\* canonical title or by file reference, is in the new result when the catalog
\* holds enough other tracks, nor among the candidates a phase keeps
PreviousTracksExcluded ==
    excluded # NoExclusion =>
        /\ Cardinality(Alternatives) >= llm_analysis.detected_limit =>
               \A i \in 1..Len(final_tracks) : ~InPrevious(final_tracks[i])
        /\ \A i \in 1..Len(decisions) :
               \A j \in 1..Len(decisions[i].pool) : ~InPrevious(decisions[i].pool[j])

(***************************************************************************)
(* deduplicate_tracks_by_title_keep_best on its own: lists of versions of  *)
(* two titles, differing in bitrate and popularity                         *)
(***************************************************************************)
MaxDedupeLen == 3

\* versions of "Song" with the bitrate and the popularity of T1, a more
\* popular one of the same bitrate, a poorer one, and another title
SameAsT1 == [T8 EXCEPT !.Ruta = 9, !.Bitrate = T1.Bitrate, !.PopularityScore = T1.PopularityScore]
MorePopular == [T8 EXCEPT !.Ruta = 10, !.Bitrate = T1.Bitrate, !.PopularityScore = T4.PopularityScore]
Versions == {T1, T8, SameAsT1, MorePopular, T2}

TrackLists == UNION {[1..n -> Versions] : n \in 1..MaxDedupeLen}

DedupeInit ==
    /\ catalog = Universe
    /\ pc = "dedupe"
    /\ query_text = <<>>
    /\ excluded = NoExclusion
    /\ llm_analysis = NoAnalysis
    /\ default_limit = 0
    /\ adjusted_limit = 0
    /\ filters = EmptyFilters
    /\ processed_tracks_phase1 = <<>>
    /\ all_tracks_phase2 = <<>>
    /\ final_processed_phase2 = <<>>
    /\ llm_raw = NoCycleResult
    /\ final_tracks = <<>>
    /\ response = NoResponse
    /\ playlists = <<>>
    /\ llmLog = <<>>
    /\ searchLog = <<>>
    /\ decisions = <<>>
    /\ limiterLog = <<>>
    /\ dbFailures = 0
    /\ queryFailed = FALSE
    /\ tracks_list \in TrackLists
    /\ deduplicated = <<>>
    /\ title_text = <<>>
    /\ canonical = <<>>
    /\ users = [e \in Emails |-> NoSession]
    /\ clock = 0
    /\ report = NoReport
    /\ ended = {}

Deduplicate ==
    /\ pc = "dedupe"
    /\ deduplicated' = deduplicate_tracks_by_title_keep_best(tracks_list)
    /\ pc' = "deduped"
    /\ UNCHANGED <<catalog, tracks_list, dbFailures, queryFailed>>
    /\ UNCHANGED canonVars
    /\ UNCHANGED authVars
    /\ UNCHANGED requestVars
    /\ UNCHANGED cycleVars
    /\ UNCHANGED logVars
    /\ UNCHANGED outVars

DedupeNext == Deduplicate

DedupeSpec == DedupeInit /\ [][DedupeNext]_vars

\* C20: of the tracks of a list that share a canonical key, deduplication keeps
\* one, of the highest bitrate and, among those, of the highest popularity
KeepsBestOfGroup ==
    pc = "deduped" =>
        /\ \A i \in 1..Len(tracks_list) :
               \E j \in 1..Len(deduplicated) :
                   /\ DedupeKey(deduplicated[j]) = DedupeKey(tracks_list[i])
                   /\ deduplicated[j].Bitrate >= tracks_list[i].Bitrate
                   /\ deduplicated[j].Bitrate = tracks_list[i].Bitrate =>
                          deduplicated[j].PopularityScore >= tracks_list[i].PopularityScore
        /\ \A j \in 1..Len(deduplicated) : deduplicated[j] \in Range(tracks_list)
        /\ \A j, k \in 1..Len(deduplicated) :
               DedupeKey(deduplicated[j]) = DedupeKey(deduplicated[k]) => j = k

\* a list whose second track ties the first on bitrate and is more popular
\* has been deduplicated to the second
TieBrokenByPopularity ==
    /\ pc = "deduped"
    /\ Len(tracks_list) = 2
    /\ DedupeKey(tracks_list[1]) = DedupeKey(tracks_list[2])
    /\ tracks_list[1].Bitrate = tracks_list[2].Bitrate
    /\ tracks_list[2].PopularityScore > tracks_list[1].PopularityScore
    /\ deduplicated = <<tracks_list[2]>>

ArtistNames == {"a1", "a2", "a3"}
RequestedArtist(words) ==
    IF \E i \in 1..Len(words) : words[i] \in ArtistNames
    THEN words[CHOOSE i \in 1..Len(words) : words[i] \in ArtistNames]
    ELSE ""
TracksBy(artist) == {t \in catalog : t.Artista = artist}

\* C22: a request for N songs of an artist of whom the catalog holds at least N
\* tracks is answered with exactly N items, all by that artist, in descending
\* order of relative popularity
ArtistRequestExact ==
    LET artist == RequestedArtist(query_text)
        count == extract_limit_unclamped(query_text)
        items == response.playlist
    IN (/\ response.status = 200
        /\ artist # ""
        /\ count > 0
        /\ Cardinality(TracksBy(artist)) >= count) =>
           /\ Len(items) = count
           /\ \A i \in 1..Len(items) : items[i].Artista = artist
           /\ \A i \in 1..(Len(items) - 1) :
                  items[i].RelativePopularityScore >= items[i + 1].RelativePopularityScore

\* the filters of the model with a country of one kind forced into them
CountryFilters(country, kind) ==
    [EmptyFilters EXCEPT !["country"] = StrVal(country), !["country_type"] = StrVal(kind)]

\* C23: a country of kind origin is parsed into a predicate on the artist's
\* area alone, a country of kind popular-in into an alternative over the
\* popular-in fields, and the two filter dicts differ
CountryPredicateShapes ==
    llm_analysis.country # "" =>
        LET origin == parse_filters_from_llm(CountryFilters(llm_analysis.country, "origin"))
            popular == parse_filters_from_llm(CountryFilters(llm_analysis.country, "popular_in"))
        IN /\ origin # popular
           /\ origin["ArtistArea"] # NoVal /\ origin["or"] = NoVal
           /\ popular["or"] # NoVal /\ popular["ArtistArea"] = NoVal

IntentHasTypeAndLimit ==
    llm_analysis # NoAnalysis =>
        /\ llm_analysis.type # ""
        /\ llm_analysis.detected_limit \in Nat

\* C26: every response with a playlist holds the phase that ended the search
\* (1, 2, 3, or 0 for the fallback), and it is the phase whose tracks the
\* cycle returned
GenerationPhaseRecorded ==
    response.status = 200 =>
        /\ "phase" \in DOMAIN response
        /\ response.phase \in 0..3
        /\ response.phase = llm_raw.phase

\* the lists of the request that hold tracks the cycle has scored
ScoredLists ==
    {processed_tracks_phase1, final_processed_phase2, llm_raw.results, final_tracks}

\* the relative scores computed so far
ComputedRelativeScores ==
    UNION {{l[i].RelativePopularityScore : i \in 1..Len(l)} : l \in ScoredLists} \ {-1}

\* C27: every relative popularity score computed for a list of tracks lies
\* between 0.2 and 1.0
RelativeScoreInRange ==
    \A score \in ComputedRelativeScores : score >= 2000 /\ score <= 10000

\* a list has been scored with its most popular track at 1.0 and another
\* track below it
RelativeScoresSpread ==
    \E l \in ScoredLists :
        /\ \E i \in 1..Len(l) : l[i].RelativePopularityScore = 10000
        /\ \E i \in 1..Len(l) : l[i].RelativePopularityScore \in 2000..9999

\* the raw popularity scores of the tracks the cycle holds
RawScores ==
    UNION {{l[i].PopularityScore : i \in 1..Len(l)} : l \in ScoredLists}

\* C28: the raw popularity score of every track lies between 0 and 1,
\* whatever maxima of the corpus it was computed with
RawScoreInUnitRange ==
    \A score \in RawScores : score >= 0 /\ score <= 10000

(***************************************************************************)
(* The canonicalisation of titles on its own                               *)
(***************************************************************************)
MaxTitleLen == 3

\* the words of the titles given to the canonicalisation
TitleTokens == {"Song", "live", "(remastered)", "1999", "mix", "bonus-track", "-", "with"}

Titles == UNION {[1..n -> TitleTokens] : n \in 0..MaxTitleLen}

CanonInit ==
    /\ catalog = Universe
    /\ pc = "canon"
    /\ query_text = <<>>
    /\ excluded = NoExclusion
    /\ llm_analysis = NoAnalysis
    /\ default_limit = 0
    /\ adjusted_limit = 0
    /\ filters = EmptyFilters
    /\ processed_tracks_phase1 = <<>>
    /\ all_tracks_phase2 = <<>>
    /\ final_processed_phase2 = <<>>
    /\ llm_raw = NoCycleResult
    /\ final_tracks = <<>>
    /\ response = NoResponse
    /\ playlists = <<>>
    /\ llmLog = <<>>
    /\ searchLog = <<>>
    /\ decisions = <<>>
    /\ limiterLog = <<>>
    /\ dbFailures = 0
    /\ queryFailed = FALSE
    /\ tracks_list = <<>>
    /\ deduplicated = <<>>
    /\ title_text \in Titles
    /\ canonical = <<>>
    /\ users = [e \in Emails |-> NoSession]
    /\ clock = 0
    /\ report = NoReport
    /\ ended = {}

Canonicalize ==
    /\ pc = "canon"
    /\ canonical' = normalize_title_for_dedupe(title_text)
    /\ pc' = "canonical"
    /\ UNCHANGED <<catalog, title_text, tracks_list, deduplicated, dbFailures, queryFailed>>
    /\ UNCHANGED authVars
    /\ UNCHANGED requestVars
    /\ UNCHANGED cycleVars
    /\ UNCHANGED logVars
    /\ UNCHANGED outVars

CanonNext == Canonicalize

CanonSpec == CanonInit /\ [][CanonNext]_vars

\* C29: the canonical form of a title is its own canonical form
CanonicalizationIdempotent ==
    pc = "canonical" => normalize_title_for_dedupe(canonical) = canonical

(***************************************************************************)
(* Sessions on their own: login, logout, validation and the passing of     *)
(* time, for the handlers of auth/controllers.py and of auth_beta2.py      *)
(***************************************************************************)
AuthInit ==
    /\ catalog = Universe
    /\ pc = "auth"
    /\ query_text = <<>>
    /\ excluded = NoExclusion
    /\ llm_analysis = NoAnalysis
    /\ default_limit = 0
    /\ adjusted_limit = 0
    /\ filters = EmptyFilters
    /\ processed_tracks_phase1 = <<>>
    /\ all_tracks_phase2 = <<>>
    /\ final_processed_phase2 = <<>>
    /\ llm_raw = NoCycleResult
    /\ final_tracks = <<>>
    /\ response = NoResponse
    /\ playlists = <<>>
    /\ llmLog = <<>>
    /\ searchLog = <<>>
    /\ decisions = <<>>
    /\ limiterLog = <<>>
    /\ dbFailures = 0
    /\ queryFailed = FALSE
    /\ tracks_list = <<>>
    /\ deduplicated = <<>>
    /\ title_text = <<>>
    /\ canonical = <<>>
    /\ users = [e \in Emails |-> NoSession]
    /\ clock = 0
    /\ report = NoReport
    /\ ended = {}

\* what the session handlers leave alone
AuthFrame ==
    /\ UNCHANGED <<catalog, pc, dbFailures, queryFailed>>
    /\ UNCHANGED requestVars
    /\ UNCHANGED cycleVars
    /\ UNCHANGED logVars
    /\ UNCHANGED outVars
    /\ UNCHANGED dedupeVars
    /\ UNCHANGED canonVars

Tick ==
    /\ pc = "auth"
    /\ clock < MaxClock
    /\ clock' = clock + 1
    /\ UNCHANGED <<users, report, ended>>
    /\ AuthFrame

\* auth/controllers.py login_with_password, the password being right
login_with_password(email) ==
    /\ pc = "auth"
    /\ users' = [users EXCEPT ![email].token = create_access_token(email, clock)]
    /\ UNCHANGED <<clock, report, ended>>
    /\ AuthFrame

\* auth/controllers.py logout_user: 404 when the update modifies nothing
logout_user(email) ==
    /\ pc = "auth"
    /\ users[email].token # NoToken
    /\ users' = [users EXCEPT ![email].token = NoToken]
    /\ ended' = ended \cup {users[email].token}
    /\ UNCHANGED <<clock, report>>
    /\ AuthFrame

\* auth/controllers.py validate_token
validate_token(token) ==
    /\ pc = "auth"
    /\ LET decoded == decode_access_token(token, clock)
       IN report' = [impl |-> "controllers", token |-> token,
                     valid |-> decoded # NoToken /\ users[decoded.email].token = token,
                     at |-> clock,
                     stored |-> \E e \in Emails : users[e].token = token,
                     expires |-> token.exp,
                     ended |-> token \in ended]
    /\ UNCHANGED <<users, clock, ended>>
    /\ AuthFrame

\* auth_beta2.py login_with_password, the password being right
beta2_login_with_password(email) ==
    /\ pc = "auth"
    /\ \E token \in HexTokens :
          /\ token \notin ended
          /\ \A e \in Emails : users[e].session_token # token
          /\ users' = [users EXCEPT ![email].session_token = token,
                                    ![email].session_expires_at = clock + SessionTtl]
    /\ UNCHANGED <<clock, report, ended>>
    /\ AuthFrame

\* the users whose stored session token is the given one
SessionOwners(token) == {e \in Emails : users[e].session_token = token}

\* auth_beta2.py logout_user: the session fields of the owner are unset
beta2_logout_user(token) ==
    /\ pc = "auth"
    /\ SessionOwners(token) # {}
    /\ users' = [e \in Emails |-> IF e \in SessionOwners(token)
                                   THEN [users[e] EXCEPT !.session_token = NoToken,
                                                         !.session_expires_at = 0]
                                   ELSE users[e]]
    /\ ended' = ended \cup {token}
    /\ UNCHANGED <<clock, report>>
    /\ AuthFrame

\* auth_beta2.py validate_token: the 401 of an expired session is raised
\* inside the try whose handler catches every Exception, so the session is
\* unset and the answer is still "valid"
beta2_validate_token(token) ==
    /\ pc = "auth"
    /\ IF SessionOwners(token) = {}
       THEN /\ report' = [impl |-> "beta2", token |-> token, valid |-> FALSE, at |-> clock,
                          stored |-> FALSE, expires |-> 0, ended |-> token \in ended]
            /\ users' = users
       ELSE LET owner == CHOOSE e \in SessionOwners(token) : TRUE
                expires_at == users[owner].session_expires_at
            IN /\ report' = [impl |-> "beta2", token |-> token, valid |-> TRUE, at |-> clock,
                             stored |-> TRUE, expires |-> expires_at, ended |-> token \in ended]
               /\ users' = IF clock > expires_at
                           THEN [users EXCEPT ![owner].session_token = NoToken,
                                              ![owner].session_expires_at = 0]
                           ELSE users
    /\ UNCHANGED <<clock, ended>>
    /\ AuthFrame

AuthNext ==
    \/ Tick
    \/ \E email \in Emails : login_with_password(email)
    \/ \E email \in Emails : logout_user(email)
    \/ \E token \in JwtTokens : validate_token(token)
    \/ \E email \in Emails : beta2_login_with_password(email)
    \/ \E token \in HexTokens : beta2_logout_user(token)
    \/ \E token \in HexTokens : beta2_validate_token(token)

AuthSpec == AuthInit /\ [][AuthNext]_vars

\* C30: a token is reported valid only if it is the token stored for a user
\* and its expiry has not passed, and never after a logout has ended its session
ValidOnlyIfStoredAndUnexpired ==
    report.valid =>
        /\ report.stored
        /\ report.at <= report.expires
        /\ ~report.ended

====
